---- MODULE Spec2Model ----
(***************************************************************************)
(* A model of src/main.py: the /31 subnet pool, the per-link address       *)
(* assignment, the assembly of the per-router FRR configuration, the       *)
(* containerlab descriptor, the deployment call and the chat loop.         *)
(*                                                                         *)
(* Python values are modelled as follows.                                  *)
(*   - str: a TLA+ string; f-strings are concatenations (\o), integers     *)
(*     and addresses are formatted with ToString / Dotted.                 *)
(*   - IPv4Network: [network_address, prefixlen], the address an integer.  *)
(*   - an endpoint "router:iface": the pair <<router, iface>> that         *)
(*     split(':') yields; EndpointStr is the text of the endpoint.         *)
(*   - list objects live in heap (reference = index into heap); a dict of  *)
(*     lists is a sequence of <<key, reference>> pairs in insertion order, *)
(*     so that two dicts can share the list objects they hold.             *)
(*   - an uncaught exception: pc = "failed", error its class and origin.   *)
(***************************************************************************)
EXTENDS Integers, Sequences, FiniteSets, TLC

VARIABLES
    pc,                  \* position of main()
    parent_prefix,       \* the parent block handed to generate_31_subnets
    subnets,             \* the pool: list of /31 networks (main line 224)
    parsed_data,         \* yaml.safe_load of the Stage 1 answer
    idx,                 \* position of the for loop that is running
    issued,              \* the values of s = subnets.pop(), in order
    heap,                \* the list objects: reference -> list of str
    rtr_configs,         \* dict router -> list reference
    ip_data,             \* dict router -> list reference (rtr_configs.copy())
    stage_2_prompt,      \* what the Stage 2 prompt text was formatted from
    stage_2_prompt_data, \* the Stage 2 answer (text, then literal_eval'ed)
    files,               \* the file system: filename -> content written
    deploy_calls,        \* the runs of "containerlab deploy": << stderr text >>
    messages,            \* start_gpt4_chat's messages list
    error                \* the uncaught exception: its class and where it was raised

vars == << pc, parent_prefix, subnets, parsed_data, idx, issued, heap,
           rtr_configs, ip_data, stage_2_prompt, stage_2_prompt_data, files,
           deploy_calls, messages, error >>

-----------------------------------------------------------------------------
(* Bounds and program constants *)

MaxLinks == 3
MaxChatTurns == 1

NewPrefix == 31
LabParentAddress == 184418304   \* 10.254.0.0
LabParentPrefixLen == 24

RECURSIVE Pow2(_)
Pow2(n) == IF n = 0 THEN 1 ELSE 2 * Pow2(n - 1)

Network(a, p) == [network_address |-> a, prefixlen |-> p]

LabParent == Network(LabParentAddress, LabParentPrefixLen)

\* The parent blocks tried: the one main() uses, two small ones that a short
\* topology exhausts, one that is too small to subnet, one with host bits set.
ParentBlocks ==
    { LabParent,
      Network(LabParentAddress + 4, 30),
      Network(LabParentAddress + 8, 29),
      Network(LabParentAddress + 2, 31),
      Network(LabParentAddress + 1, 30) }

Link(a, b) == [endpoints |-> << a, b >>]

LinkChoices ==
    { Link(<< "r1", "eth1" >>, << "r2", "eth1" >>),
      Link(<< "r1", "eth2" >>, << "r3", "eth1" >>),
      Link(<< "r2", "eth2" >>, << "r2", "eth3" >>) }

LinkLists == UNION { [1..n -> LinkChoices] : n \in 0..MaxLinks }

\* yaml.safe_load's result: a dict with or without the key 'links'
TopologyInputs ==
    { [has_links |-> FALSE, links |-> << >>] }
    \cup { [has_links |-> TRUE, links |-> ls] : ls \in LinkLists }

BgpRouters == << "r1", "r2", "r3", "r9" >>

BgpText(router) == "router bgp 65000\n bgp router-id " \o router \o "\n"

\* The Stage 2 answer: text that literal_eval rejects, or a dict whose
\* 'bgp_config' maps some of BgpRouters to configuration text.
RECURSIVE BgpConfigOf(_, _)
BgpConfigOf(keys, i) ==
    IF i > Len(BgpRouters) THEN << >>
    ELSE (IF BgpRouters[i] \in keys
            THEN << << BgpRouters[i], BgpText(BgpRouters[i]) >> >>
            ELSE << >>) \o BgpConfigOf(keys, i + 1)

Range(s) == { s[i] : i \in DOMAIN s }

Stage2Inputs ==
    { [literal |-> FALSE, bgp_config |-> << >>] }
    \cup { [literal |-> TRUE, bgp_config |-> BgpConfigOf(keys, 1)] :
             keys \in SUBSET Range(BgpRouters) }

UserInputs == { "quit", "QUIT", "show ip bgp summary" }

-----------------------------------------------------------------------------
(* ipaddress *)

Dotted(a) ==
    ToString(a \div 16777216) \o "." \o ToString((a \div 65536) % 256) \o "."
        \o ToString((a \div 256) % 256) \o "." \o ToString(a % 256)

\* ip_network(parent_prefix) is strict: host bits set raise ValueError
HasHostBits(n) == n.network_address % Pow2(32 - n.prefixlen) # 0

\* network.subnets(new_prefix=31), in increasing address order
Subnets31(n) ==
    [i \in 1..Pow2(NewPrefix - n.prefixlen) |->
        Network(n.network_address + (i - 1) * Pow2(32 - NewPrefix), NewPrefix)]

\* Hosts with the two addresses of a /31 in decreasing order
HostsReversed(s) == << s.network_address + 1, s.network_address >>

\* s.hosts(): for a /31 both addresses, otherwise all but network and broadcast
Hosts(s) ==
    LET size == Pow2(32 - s.prefixlen)
    IN  IF s.prefixlen = 31
          THEN [i \in 1..2 |-> s.network_address + i - 1]
          ELSE [i \in 1..(size - 2) |-> s.network_address + i]

-----------------------------------------------------------------------------
(* list and dict *)

\* a pop that returns the tail item and leaves it in the list
ListPopKeep(l) == << l[Len(l)], l >>

\* list.pop(0): the pool used as a queue
ListPopHead(l) == << l[1], SubSeq(l, 2, Len(l)) >>

\* list.pop(): << the item removed from the tail, the list that is left >>
ListPop(l) == << l[Len(l)], SubSeq(l, 1, Len(l) - 1) >>

Keys(d) == { d[i][1] : i \in DOMAIN d }

Ref(d, k) == d[CHOOSE i \in DOMAIN d : d[i][1] = k][2]

\* the lists a dict holds, read through the heap
Deref(d, h) == [i \in DOMAIN d |-> << d[i][1], h[d[i][2]] >>]

ListOf(d, h, k) == h[Ref(d, k)]

\* dict.copy(): a new dict holding the same list objects
DictCopy(d) == d

\* rtr_configs[router] = [] without the membership test
EnsureListFresh(st, router) ==
    IF router \in Keys(st.d) THEN [st EXCEPT !.h[Ref(st.d, router)] = << >>]
    ELSE [d |-> Append(st.d, << router, Len(st.h) + 1 >>),
          h |-> Append(st.h, << >>)]

\* if router not in rtr_configs: rtr_configs[router] = []
EnsureList(st, router) ==
    IF router \in Keys(st.d) THEN st
    ELSE [d |-> Append(st.d, << router, Len(st.h) + 1 >>),
          h |-> Append(st.h, << >>)]

\* rtr_configs[router].append(line)
ListAppend(st, router, line) ==
    [st EXCEPT !.h[Ref(st.d, router)] = Append(@, line)]

\* rtr_configs[router].insert(0, line)
ListInsert0(st, router, line) ==
    [st EXCEPT !.h[Ref(st.d, router)] = << line >> \o @]

NoError == [class |-> "", raised_in |-> ""]

Raise(cls, fn) == pc' = "failed" /\ error' = [class |-> cls, raised_in |-> fn]

-----------------------------------------------------------------------------
Init ==
    /\ pc = "start"
    /\ parent_prefix \in ParentBlocks
    /\ subnets = << >>
    /\ parsed_data = [has_links |-> FALSE, links |-> << >>]
    /\ idx = 0
    /\ issued = << >>
    /\ heap = << >>
    /\ rtr_configs = << >>
    /\ ip_data = << >>
    /\ stage_2_prompt = << >>
    /\ stage_2_prompt_data = [literal |-> FALSE, bgp_config |-> << >>]
    /\ files = << >>
    /\ deploy_calls = << >>
    /\ messages = << >>
    /\ error = NoError

\* generate_31_subnets
GenerateSubnets ==
    /\ pc = "start"
    /\ ~HasHostBits(parent_prefix)
    /\ ~(NewPrefix <= parent_prefix.prefixlen)
    /\ subnets' = Subnets31(parent_prefix)
    /\ pc' = "stage1"
    /\ UNCHANGED << parent_prefix, parsed_data, idx, issued, heap, rtr_configs,
                    ip_data, stage_2_prompt, stage_2_prompt_data, files,
                    deploy_calls, messages, error >>

GenerateSubnetsInvalid ==
    /\ pc = "start"
    /\ HasHostBits(parent_prefix) \/ NewPrefix <= parent_prefix.prefixlen
    /\ Raise("ValueError", "generate_31_subnets")
    /\ UNCHANGED << parent_prefix, subnets, parsed_data, idx, issued, heap,
                    rtr_configs, ip_data, stage_2_prompt, stage_2_prompt_data,
                    files, deploy_calls, messages >>

\* generate_topology and yaml.safe_load (main lines 227-232)
GenerateTopology ==
    /\ pc = "stage1"
    /\ \E data \in TopologyInputs : parsed_data' = data
    /\ pc' = "addressing"
    /\ idx' = 1
    /\ UNCHANGED << parent_prefix, subnets, issued, heap, rtr_configs, ip_data,
                    stage_2_prompt, stage_2_prompt_data, files, deploy_calls,
                    messages, error >>

InterfaceLine(link) == "interface " \o link \o "\n"

AddressLine(ip, prefix) ==
    " ip address " \o Dotted(ip) \o "/" \o ToString(prefix) \o "\n"

\* the body of the for loop of generate_frrouter_addressing_info after the
\* pop: s is the subnet popped, st the dict and the heap
AddressLink(st, link, s) ==
    LET a_end == link.endpoints[1]
        b_end == link.endpoints[2]
        a_router == a_end[1]
        a_link == a_end[2]
        b_router == b_end[1]
        b_link == b_end[2]
        a_ip == Hosts(s)[1]
        b_ip == Hosts(s)[2]
        prefix == s.prefixlen
        st1 == EnsureList(st, a_router)
        st2 == ListAppend(st1, a_router, InterfaceLine(a_link))
        st3 == ListAppend(st2, a_router, AddressLine(a_ip, prefix))
        st4 == EnsureList(st3, b_router)
        st5 == ListAppend(st4, b_router, InterfaceLine(b_link))
    IN  ListAppend(st5, b_router, AddressLine(b_ip, prefix))

\* a missing 'links' section treated as an empty topology
AddressingNoLinksReturnsEmpty ==
    /\ pc = "addressing"
    /\ ~parsed_data.has_links
    /\ ip_data' = DictCopy(rtr_configs)
    /\ pc' = "stage2"
    /\ UNCHANGED << parent_prefix, subnets, parsed_data, idx, issued, heap,
                    rtr_configs, stage_2_prompt, stage_2_prompt_data, files,
                    deploy_calls, messages, error >>

\* generate_frrouter_addressing_info: no 'links' in parsed_data
AddressingNoLinks ==
    /\ pc = "addressing"
    /\ ~parsed_data.has_links
    /\ Raise("ValueError", "generate_frrouter_addressing_info")
    /\ UNCHANGED << parent_prefix, subnets, parsed_data, idx, issued, heap,
                    rtr_configs, ip_data, stage_2_prompt, stage_2_prompt_data,
                    files, deploy_calls, messages >>

\* one iteration of the for loop of generate_frrouter_addressing_info
AssignLink ==
    /\ pc = "addressing"
    /\ parsed_data.has_links
    /\ idx <= Len(parsed_data.links)
    /\ subnets # << >>
    /\ LET popped == ListPop(subnets)
           s == popped[1]
           st == AddressLink([d |-> rtr_configs, h |-> heap],
                             parsed_data.links[idx], s)
       IN  /\ subnets' = popped[2]
           /\ issued' = Append(issued, s)
           /\ rtr_configs' = st.d
           /\ heap' = st.h
    /\ idx' = idx + 1
    /\ UNCHANGED << pc, parent_prefix, parsed_data, ip_data, stage_2_prompt,
                    stage_2_prompt_data, files, deploy_calls, messages, error >>

\* subnets.pop() on an empty list
AssignLinkExhausted ==
    /\ pc = "addressing"
    /\ parsed_data.has_links
    /\ idx <= Len(parsed_data.links)
    /\ subnets = << >>
    /\ Raise("IndexError", "generate_frrouter_addressing_info")
    /\ UNCHANGED << parent_prefix, subnets, parsed_data, idx, issued, heap,
                    rtr_configs, ip_data, stage_2_prompt, stage_2_prompt_data,
                    files, deploy_calls, messages >>

\* return rtr_configs; ip_data = rtr_configs.copy() (main lines 235-238)
AddressingReturn ==
    /\ pc = "addressing"
    /\ parsed_data.has_links
    /\ idx > Len(parsed_data.links)
    /\ ip_data' = DictCopy(rtr_configs)
    /\ pc' = "stage2"
    /\ UNCHANGED << parent_prefix, subnets, parsed_data, idx, issued, heap,
                    rtr_configs, stage_2_prompt, stage_2_prompt_data, files,
                    deploy_calls, messages, error >>

\* generate_bgp_troubleshooting_scenario (main lines 243-245): the prompt is
\* formatted from rtr_configs and parsed_data as they are now
GenerateScenario ==
    /\ pc = "stage2"
    /\ stage_2_prompt' = [stage_1_data |-> parsed_data,
                          ip_data |-> Deref(rtr_configs, heap)]
    /\ \E answer \in Stage2Inputs : stage_2_prompt_data' = answer
    /\ pc' = "base"
    /\ idx' = 1
    /\ UNCHANGED << parent_prefix, subnets, parsed_data, issued, heap,
                    rtr_configs, ip_data, files, deploy_calls, messages, error >>

\* the body of the for loop of main lines 250-256
BaseConfig(st, router) ==
    LET st1 == ListInsert0(st, router, "frr defaults traditional \n")
        st2 == ListInsert0(st1, router, "hostname " \o router \o " \n")
        st3 == ListInsert0(st2, router, "no ipv6 forwarding \n")
        st4 == ListAppend(st3, router, "router ospf \n")
        st5 == ListAppend(st4, router, " network 10.254.0.0/16 area 0.0.0.0 \n")
    IN  ListAppend(st5, router, "line vty \n")

AddBaseConfig ==
    /\ pc = "base"
    /\ idx <= Len(rtr_configs)
    /\ heap' = BaseConfig([d |-> rtr_configs, h |-> heap], rtr_configs[idx][1]).h
    /\ idx' = idx + 1
    /\ UNCHANGED << pc, parent_prefix, subnets, parsed_data, issued, rtr_configs,
                    ip_data, stage_2_prompt, stage_2_prompt_data, files,
                    deploy_calls, messages, error >>

\* ast.literal_eval(stage_2_prompt_data) (main line 259)
LiteralEval ==
    /\ pc = "base"
    /\ idx > Len(rtr_configs)
    /\ IF stage_2_prompt_data.literal
          THEN pc' = "bgp" /\ error' = error
          ELSE Raise("ValueError", "literal_eval")
    /\ idx' = 1
    /\ UNCHANGED << parent_prefix, subnets, parsed_data, issued, heap,
                    rtr_configs, ip_data, stage_2_prompt, stage_2_prompt_data,
                    files, deploy_calls, messages >>

\* rtr_configs[router].append(config) (main lines 263-264)
AppendBgpConfig ==
    /\ pc = "bgp"
    /\ idx <= Len(stage_2_prompt_data.bgp_config)
    /\ stage_2_prompt_data.bgp_config[idx][1] \in Keys(rtr_configs)
    /\ heap' = ListAppend([d |-> rtr_configs, h |-> heap],
                          stage_2_prompt_data.bgp_config[idx][1],
                          stage_2_prompt_data.bgp_config[idx][2]).h
    /\ idx' = idx + 1
    /\ UNCHANGED << pc, parent_prefix, subnets, parsed_data, issued, rtr_configs,
                    ip_data, stage_2_prompt, stage_2_prompt_data, files,
                    deploy_calls, messages, error >>

\* an entry for an unknown router skipped
AppendBgpSkipUnknown ==
    /\ pc = "bgp"
    /\ idx <= Len(stage_2_prompt_data.bgp_config)
    /\ stage_2_prompt_data.bgp_config[idx][1] \notin Keys(rtr_configs)
    /\ idx' = idx + 1
    /\ UNCHANGED << pc, parent_prefix, subnets, parsed_data, issued, heap,
                    rtr_configs, ip_data, stage_2_prompt, stage_2_prompt_data,
                    files, deploy_calls, messages, error >>

\* rtr_configs[router] for a router that is no key of the dict
AppendBgpUnknownRouter ==
    /\ pc = "bgp"
    /\ idx <= Len(stage_2_prompt_data.bgp_config)
    /\ stage_2_prompt_data.bgp_config[idx][1] \notin Keys(rtr_configs)
    /\ Raise("KeyError", "main")
    /\ UNCHANGED << parent_prefix, subnets, parsed_data, idx, issued, heap,
                    rtr_configs, ip_data, stage_2_prompt, stage_2_prompt_data,
                    files, deploy_calls, messages >>

\* the for loop of main lines 263-264 ends
AppendBgpDone ==
    /\ pc = "bgp"
    /\ idx > Len(stage_2_prompt_data.bgp_config)
    /\ pc' = "write"
    /\ idx' = 1
    /\ UNCHANGED << parent_prefix, subnets, parsed_data, issued, heap,
                    rtr_configs, ip_data, stage_2_prompt, stage_2_prompt_data,
                    files, deploy_calls, messages, error >>

\* write_configuration_to_file: open(filename, 'w') and one f.write per item;
\* the content of the file is the items one after the other
RECURSIVE Concat(_)
Concat(lines) ==
    IF lines = << >> THEN "" ELSE Head(lines) \o Concat(Tail(lines))

WriteConfigurationToFile(fs, filename, lines) ==
    (filename :> Concat(lines)) @@ fs

ConfFileName(router) == router \o "_frr.conf"

\* one iteration of the for loop of main lines 267-269
WriteConfig ==
    /\ pc = "write"
    /\ idx <= Len(rtr_configs)
    /\ files' = WriteConfigurationToFile(files, ConfFileName(rtr_configs[idx][1]),
                                         heap[rtr_configs[idx][2]])
    /\ idx' = idx + 1
    /\ UNCHANGED << pc, parent_prefix, subnets, parsed_data, issued, heap,
                    rtr_configs, ip_data, stage_2_prompt, stage_2_prompt_data,
                    deploy_calls, messages, error >>

\* topology_data (main lines 272-287): nodes in the order of rtr_configs
NodeDetails(router) ==
    << [key |-> "kind", is_list |-> FALSE, value |-> "linux", items |-> << >>],
       [key |-> "image", is_list |-> FALSE, value |-> "frrouting/frr:v7.5.1",
        items |-> << >>],
       [key |-> "binds", is_list |-> TRUE, value |-> "",
        items |-> << "./daemons:/etc/frr/daemons",
                     ConfFileName(router) \o ":/etc/frr/frr.conf" >>] >>

TopologyData(d, links) ==
    [name |-> "lab_example",
     nodes |-> [i \in DOMAIN d |-> << d[i][1], NodeDetails(d[i][1]) >>],
     links |-> links]

EndpointStr(e) == e[1] \o ":" \o e[2]

\* ', '.join(f'"{endpoint}"' for endpoint in link["endpoints"])
RECURSIVE JoinQuoted(_)
JoinQuoted(es) ==
    IF es = << >> THEN ""
    ELSE "\"" \o EndpointStr(Head(es)) \o "\""
            \o (IF Tail(es) = << >> THEN "" ELSE ", " \o JoinQuoted(Tail(es)))

RECURSIVE ItemsYaml(_)
ItemsYaml(items) ==
    IF items = << >> THEN ""
    ELSE "        - " \o Head(items) \o "\n" \o ItemsYaml(Tail(items))

RECURSIVE DetailsYaml(_)
DetailsYaml(details) ==
    IF details = << >> THEN ""
    ELSE (IF Head(details).is_list
            THEN "      " \o Head(details).key \o ":\n"
                    \o ItemsYaml(Head(details).items)
            ELSE "      " \o Head(details).key \o ": " \o Head(details).value
                    \o "\n")
         \o DetailsYaml(Tail(details))

RECURSIVE NodesYaml(_)
NodesYaml(nodes) ==
    IF nodes = << >> THEN ""
    ELSE "    " \o Head(nodes)[1] \o ":\n" \o DetailsYaml(Head(nodes)[2])
            \o NodesYaml(Tail(nodes))

nodes_to_yaml_string(nodes) == "  nodes:\n" \o NodesYaml(nodes)

RECURSIVE LinksYaml(_)
LinksYaml(links) ==
    IF links = << >> THEN ""
    ELSE "    - endpoints: [" \o JoinQuoted(Head(links).endpoints) \o "]\n"
            \o LinksYaml(Tail(links))

links_to_yaml_string(links) == "  links:\n" \o LinksYaml(links)

\* generate_clab_yml_config: topology_data always has 'nodes' and 'links'
generate_clab_yml_config(data) ==
    "name: " \o data.name \o "\n\n" \o "topology:\n"
        \o nodes_to_yaml_string(data.nodes) \o links_to_yaml_string(data.links)

ClabFileName == "lab_example.clab.yml"

\* main lines 272-291; the descriptor is a str, written character by
\* character, which leaves the str in the file
WriteDescriptor ==
    /\ pc = "write"
    /\ idx > Len(rtr_configs)
    /\ files' = WriteConfigurationToFile(files, ClabFileName,
          << generate_clab_yml_config(TopologyData(rtr_configs, parsed_data.links)) >>)
    /\ pc' = "deploy"
    /\ UNCHANGED << parent_prefix, subnets, parsed_data, idx, issued, heap,
                    rtr_configs, ip_data, stage_2_prompt, stage_2_prompt_data,
                    deploy_calls, messages, error >>

\* What "containerlab deploy" may do: text on its standard error, exit code
ToolStderr == { "", "Error: containerlab requires root privileges\n" }
ToolExitCodes == { 0, 1 }

\* subprocess.Popen(command.split(), stdout=subprocess.PIPE): which streams
\* of the child are pipes
PopenStdoutPiped == TRUE
PopenStderrPiped == FALSE

\* process.communicate(): the data of a stream that is a pipe, None otherwise
StreamData(piped, data) == [none |-> ~piped, data |-> IF piped THEN data ELSE ""]

Communicate(out, err) ==
    << StreamData(PopenStdoutPiped, out), StreamData(PopenStderrPiped, err) >>

\* truth value of None or of a bytes object
Truthy(v) == ~v.none /\ v.data # ""

\* the system message of start_gpt4_chat, formatted from its arguments
ChatPrompt(stage_1_data, stage_2_data, ip) ==
    [role |-> "system",
     stage_1_data |-> stage_1_data,
     stage_2_data |-> stage_2_data,
     ip_data |-> ip]

\* main lines 293-301: run the tool, raise on error, else open the chat
Deploy ==
    /\ pc = "deploy"
    /\ \E err \in ToolStderr, code \in ToolExitCodes :
          /\ deploy_calls' = Append(deploy_calls, [stderr |-> err, returncode |-> code])
          /\ IF Truthy(Communicate("", err)[2])
                THEN Raise("ValueError", "main") /\ messages' = messages
                ELSE /\ pc' = "chat"
                     /\ error' = error
                     /\ messages' = << ChatPrompt(parsed_data, stage_2_prompt_data,
                                                  Deref(ip_data, heap)) >>
    /\ UNCHANGED << parent_prefix, subnets, parsed_data, idx, issued, heap,
                    rtr_configs, ip_data, stage_2_prompt, stage_2_prompt_data, files >>

\* message.lower(), on UserInputs
Lower(message) == IF message = "QUIT" THEN "quit" ELSE message

LlmReply == "Have you checked the neighbor state?"

\* one pass of the while loop of start_gpt4_chat that does not quit
ChatTurn ==
    /\ pc = "chat"
    /\ Len(messages) < 1 + 2 * MaxChatTurns
    /\ \E message \in UserInputs :
          /\ Lower(message) # "quit"
          /\ messages' = messages \o << [role |-> "user", content |-> message],
                                        [role |-> "assistant", content |-> LlmReply] >>
    /\ UNCHANGED << pc, parent_prefix, subnets, parsed_data, idx, issued, heap,
                    rtr_configs, ip_data, stage_2_prompt, stage_2_prompt_data,
                    files, deploy_calls, error >>

\* the user enters "quit" in any case
ChatQuit ==
    /\ pc = "chat"
    /\ \E message \in UserInputs : Lower(message) = "quit"
    /\ pc' = "done"
    /\ UNCHANGED << parent_prefix, subnets, parsed_data, idx, issued, heap,
                    rtr_configs, ip_data, stage_2_prompt, stage_2_prompt_data,
                    files, deploy_calls, messages, error >>

Next ==
    \/ GenerateSubnets
    \/ GenerateSubnetsInvalid
    \/ GenerateTopology
    \/ AddressingNoLinks
    \/ AssignLink
    \/ AssignLinkExhausted
    \/ AddressingReturn
    \/ GenerateScenario
    \/ AddBaseConfig
    \/ LiteralEval
    \/ AppendBgpConfig
    \/ AppendBgpUnknownRouter
    \/ AppendBgpDone
    \/ WriteConfig
    \/ WriteDescriptor
    \/ Deploy
    \/ ChatTurn
    \/ ChatQuit

Spec == Init /\ [][Next]_vars

-----------------------------------------------------------------------------
(* Vocabulary of the properties *)

\* generate_31_subnets has returned a pool
Generated == pc # "start" /\ error.raised_in # "generate_31_subnets"

\* the number of /31 subnets of the parent block
PoolSize == Pow2(31 - parent_prefix.prefixlen)

\* the lists hold interface fragments only: address assignment is running,
\* has returned, or has raised
FragmentsOnly ==
    \/ pc \in { "addressing", "stage2" }
    \/ pc = "failed" /\ error.raised_in = "generate_frrouter_addressing_info"

\* the endpoints of the links in the order they are met: link i gives the
\* positions 2i-1 (first endpoint) and 2i (second endpoint)
Flat(links) ==
    [p \in 1..(2 * Len(links)) |-> links[(p + 1) \div 2].endpoints[2 - (p % 2)]]

\* how many earlier endpoints name the router of endpoint p
Earlier(flat, p) == Cardinality({ q \in 1..(p - 1) : flat[q][1] = flat[p][1] })

WellFormed(links) ==
    \A p, q \in 1..(2 * Len(links)) : p # q => Flat(links)[p] # Flat(links)[q]

HasBgp(router) ==
    \E i \in DOMAIN stage_2_prompt_data.bgp_config :
        stage_2_prompt_data.bgp_config[i][1] = router

BgpOf(router) ==
    stage_2_prompt_data.bgp_config[
        CHOOSE i \in DOMAIN stage_2_prompt_data.bgp_config :
            stage_2_prompt_data.bgp_config[i][1] = router][2]

\* the fragment list of a router as address assignment returned it
ReturnedFragments(router) ==
    stage_2_prompt.ip_data[
        CHOOSE i \in DOMAIN stage_2_prompt.ip_data :
            stage_2_prompt.ip_data[i][1] = router][2]

ReturnedRouters ==
    { stage_2_prompt.ip_data[i][1] : i \in DOMAIN stage_2_prompt.ip_data }

\* the complete configuration of a router, phase by phase
CompleteConfig(router) ==
    << "no ipv6 forwarding \n", "hostname " \o router \o " \n",
       "frr defaults traditional \n" >>
    \o ReturnedFragments(router)
    \o << "router ospf \n", " network 10.254.0.0/16 area 0.0.0.0 \n", "line vty \n" >>
    \o << BgpOf(router) >>

AllAddressLines ==
    UNION { { heap[r][2 * k] : k \in 1..(Len(heap[r]) \div 2) } : r \in DOMAIN heap }

-----------------------------------------------------------------------------
(* C1: the subnets issued so far are pairwise distinct and disjoint (no     *)
(* host address in common), none of them is still in the pool, issued and   *)
(* pooled subnets together are the N subnets of the parent block, the       *)
(* address lines written for k links are 2k different lines, and a          *)
(* topology of more than N links (N+1 in particular) addresses N links and  *)
(* then fails on the pop from the empty pool.                               *)
C1_NoSubnetIssuedTwice ==
    Generated =>
        /\ Len(issued) + Len(subnets) = PoolSize
        /\ \A i, j \in DOMAIN issued :
              i # j => /\ issued[i] # issued[j]
                       /\ Range(Hosts(issued[i])) \cap Range(Hosts(issued[j])) = {}
        /\ \A i \in DOMAIN issued : \A j \in DOMAIN subnets : issued[i] # subnets[j]
        /\ FragmentsOnly => Cardinality(AllAddressLines) = 2 * Len(issued)
        /\ ( /\ parsed_data.has_links
             /\ Len(parsed_data.links) > PoolSize
             /\ pc \notin { "stage1", "addressing" } )
           => /\ pc = "failed"
              /\ error = [class |-> "IndexError",
                          raised_in |-> "generate_frrouter_addressing_info"]
              /\ Len(issued) = PoolSize
              /\ idx = PoolSize + 1
              /\ subnets = << >>

C1_Witness ==
    /\ pc = "failed"
    /\ error.class = "IndexError"
    /\ Len(parsed_data.links) = PoolSize + 1
    /\ Len(issued) = PoolSize

(* C2: link i receives the i-th subnet from the tail of the increasing      *)
(* pool, one subnet per link; the lower host address is written, with /31,  *)
(* after the interface line of the first endpoint, the higher one           *)
(* (lower + 1) after the interface line of the second endpoint.             *)
C2_TailFirstAllocation ==
    (Generated /\ FragmentsOnly /\ parsed_data.has_links) =>
        /\ pc = "addressing" => Len(issued) = idx - 1
        /\ pc = "stage2" => Len(issued) = Len(parsed_data.links)
        /\ \A i \in DOMAIN issued :
              LET lower == parent_prefix.network_address + 2 * (PoolSize - i)
                  flat == Flat(parsed_data.links)
                  a == 2 * i - 1
                  b == 2 * i
                  a_list == ListOf(rtr_configs, heap, flat[a][1])
                  b_list == ListOf(rtr_configs, heap, flat[b][1])
                  ka == Earlier(flat, a)
                  kb == Earlier(flat, b)
              IN  /\ issued[i] = Network(lower, 31)
                  /\ a_list[2 * ka + 1] = "interface " \o flat[a][2] \o "\n"
                  /\ a_list[2 * ka + 2] = " ip address " \o Dotted(lower) \o "/31\n"
                  /\ b_list[2 * kb + 1] = "interface " \o flat[b][2] \o "\n"
                  /\ b_list[2 * kb + 2] = " ip address " \o Dotted(lower + 1) \o "/31\n"

C2_Witness ==
    /\ pc = "stage2"
    /\ Len(issued) = 3
    /\ parsed_data.links[1] # parsed_data.links[2]

\* the topology of the end-to-end example, assembled
SingleLinkLab ==
    /\ parent_prefix = LabParent
    /\ parsed_data.has_links
    /\ parsed_data.links = << Link(<< "r1", "eth1" >>, << "r2", "eth1" >>) >>
    /\ pc \in { "bgp", "write", "deploy", "chat", "done" }

(* C3 as stated: the single link of the example gets 10.254.0.0/31, r1's    *)
(* eth1 10.254.0.0/31 and r2's eth1 10.254.0.1/31.                          *)
C3_Original ==
    SingleLinkLab =>
        /\ issued = << Network(LabParentAddress, 31) >>
        /\ SubSeq(ListOf(rtr_configs, heap, "r1"), 4, 5)
              = << "interface eth1\n", " ip address 10.254.0.0/31\n" >>
        /\ SubSeq(ListOf(rtr_configs, heap, "r2"), 4, 5)
              = << "interface eth1\n", " ip address 10.254.0.1/31\n" >>
        /\ " network 10.254.0.0/16 area 0.0.0.0 \n"
              \in Range(ListOf(rtr_configs, heap, "r1"))
        /\ " network 10.254.0.0/16 area 0.0.0.0 \n"
              \in Range(ListOf(rtr_configs, heap, "r2"))

(* C3 amended: the single link of the example gets the subnet at the tail   *)
(* of the pool, 10.254.0.254/31 (127 subnets stay in the pool); r1's eth1   *)
(* gets 10.254.0.254/31, r2's eth1 10.254.0.255/31, and both assembled      *)
(* configurations hold the network statement for 10.254.0.0/16.             *)
C3_SingleLinkLab ==
    SingleLinkLab =>
        /\ issued = << Network(LabParentAddress + 254, 31) >>
        /\ Len(subnets) = 127
        /\ Keys(rtr_configs) = { "r1", "r2" }
        /\ SubSeq(ListOf(rtr_configs, heap, "r1"), 4, 5)
              = << "interface eth1\n", " ip address 10.254.0.254/31\n" >>
        /\ SubSeq(ListOf(rtr_configs, heap, "r2"), 4, 5)
              = << "interface eth1\n", " ip address 10.254.0.255/31\n" >>
        /\ " network 10.254.0.0/16 area 0.0.0.0 \n"
              \in Range(ListOf(rtr_configs, heap, "r1"))
        /\ " network 10.254.0.0/16 area 0.0.0.0 \n"
              \in Range(ListOf(rtr_configs, heap, "r2"))

C3_Witness == SingleLinkLab /\ pc = "done"

(* C4 as stated: the file written for a router holds, in this order, the    *)
(* three base lines, the router's interface blocks in the order address     *)
(* assignment appended them, the three lines of the OSPF block, and last    *)
(* the BGP text supplied for this router.                                   *)
C4_ConfigFileOrder ==
    \A i \in DOMAIN rtr_configs :
        LET router == rtr_configs[i][1]
        IN  ConfFileName(router) \in DOMAIN files =>
                /\ HasBgp(router)
                /\ files[ConfFileName(router)] = Concat(CompleteConfig(router))

(* C5 as stated: once the deployment tool has been invoked, every router    *)
(* of the router set has a complete configuration: base lines, its          *)
(* interface blocks, the OSPF block and its own BGP text, in list and file. *)
C5_NoPartialSuccess ==
    deploy_calls # << >> =>
        \A router \in Keys(rtr_configs) :
            /\ HasBgp(router)
            /\ ListOf(rtr_configs, heap, router) = CompleteConfig(router)
            /\ ConfFileName(router) \in DOMAIN files

\* the Stage 2 answer names a router that address assignment did not return
NamesUnknownRouter ==
    /\ stage_2_prompt_data.literal
    /\ \E i \in DOMAIN stage_2_prompt_data.bgp_config :
          stage_2_prompt_data.bgp_config[i][1] \notin ReturnedRouters

FirstUnknown ==
    CHOOSE i \in DOMAIN stage_2_prompt_data.bgp_config :
        /\ stage_2_prompt_data.bgp_config[i][1] \notin ReturnedRouters
        /\ \A j \in 1..(i - 1) :
              stage_2_prompt_data.bgp_config[j][1] \in ReturnedRouters

(* C6: when the BGP mapping names a router that is not in the router set    *)
(* of address assignment, the run never gets past that entry: it is still   *)
(* on its way to the entry or has failed with KeyError; the router set is   *)
(* unchanged, no file has been written and the tool has not been invoked.   *)
C6_UnknownRouterIsFatal ==
    NamesUnknownRouter =>
        /\ pc \in { "base", "bgp", "failed" }
        /\ pc = "bgp" => idx <= FirstUnknown
        /\ pc = "failed" => error = [class |-> "KeyError", raised_in |-> "main"]
        /\ Keys(rtr_configs) = ReturnedRouters
        /\ files = << >>
        /\ deploy_calls = << >>

C6_Witness ==
    /\ NamesUnknownRouter
    /\ pc = "failed"
    /\ error.class = "KeyError"
    /\ FirstUnknown > 1

(* C7 as stated: whenever the deployment tool wrote to its standard error,  *)
(* the run has ended in a fatal error and the chat was not entered.         *)
C7_DeploymentFailureIsFatal ==
    \A i \in DOMAIN deploy_calls :
        deploy_calls[i].stderr # "" =>
            /\ pc = "failed"
            /\ error.class = "ValueError"
            /\ messages = << >>

\* the fragments of a router in the order its endpoints are met, the
\* addresses taken from the subnets issued
RECURSIVE ExpectedFragments(_, _, _)
ExpectedFragments(flat, router, p) ==
    IF p > Len(flat) THEN << >>
    ELSE (IF flat[p][1] = router
            THEN << "interface " \o flat[p][2] \o "\n",
                    " ip address "
                        \o Dotted(issued[(p + 1) \div 2].network_address + 1 - (p % 2))
                        \o "/31\n" >>
            ELSE << >>)
         \o ExpectedFragments(flat, router, p + 1)

(* C8: for a link list in which no endpoint occurs twice, when address      *)
(* assignment returns, the router set is the set of routers the links       *)
(* name, the list of each router is exactly one interface line and one      *)
(* address line per endpoint of the router, in the order the endpoints were *)
(* met, and no interface line occurs twice in a list.                       *)
C8_OneFragmentPerEndpoint ==
    (pc = "stage2" /\ WellFormed(parsed_data.links)) =>
        LET flat == Flat(parsed_data.links)
        IN  /\ Keys(rtr_configs) = { flat[p][1] : p \in DOMAIN flat }
            /\ Len(rtr_configs) = Cardinality(Keys(rtr_configs))
            /\ \A router \in Keys(rtr_configs) :
                  LET list == ListOf(rtr_configs, heap, router)
                      n == Cardinality({ p \in DOMAIN flat : flat[p][1] = router })
                  IN  /\ list = ExpectedFragments(flat, router, 1)
                      /\ Len(list) = 2 * n
                      /\ \A k, m \in 1..n : k # m => list[2 * k - 1] # list[2 * m - 1]

C8_Witness ==
    /\ pc = "stage2"
    /\ WellFormed(parsed_data.links)
    /\ Len(parsed_data.links) = 3
    /\ Len(ListOf(rtr_configs, heap, "r2")) = 6

\* the topology was loaded and has no 'links'
NoLinksLoaded ==
    /\ Generated
    /\ pc # "stage1"
    /\ ~parsed_data.has_links

(* C9: with no 'links' section the run stops in                             *)
(* generate_frrouter_addressing_info with ValueError; the pool still holds  *)
(* every subnet, no router entry or fragment exists, and no later stage     *)
(* (scenario, files, deployment, chat) has run.                             *)
C9_MissingLinksRejected ==
    NoLinksLoaded =>
        /\ pc \in { "addressing", "failed" }
        /\ pc = "failed" =>
              error = [class |-> "ValueError",
                       raised_in |-> "generate_frrouter_addressing_info"]
        /\ Len(subnets) = PoolSize
        /\ issued = << >>
        /\ rtr_configs = << >>
        /\ heap = << >>
        /\ ip_data = << >>
        /\ stage_2_prompt = << >>
        /\ files = << >>
        /\ deploy_calls = << >>
        /\ messages = << >>

C9_Witness == NoLinksLoaded /\ pc = "failed"

(* C10 as stated: the ip_data handed to start_gpt4_chat holds, for every    *)
(* router, the fragment list that address assignment returned.              *)
C10_IpDataIsSnapshot ==
    pc \in { "chat", "done" } => messages[1].ip_data = stage_2_prompt.ip_data

====
